---- MODULE Spec2Model ----
(***************************************************************************)
(* A model of heavyprofile/util.py: the DiffInfo change set (update, load, *)
(* dump, __iter__) and the download_file fetcher (check_exists, checksum   *)
(* short-circuit, streamed download, post-download verification).          *)
(*                                                                         *)
(* Text is modelled character by character: a str is a sequence of         *)
(* characters, a bytes object a sequence of bytes, each character or byte  *)
(* a one-token string.  ASCII characters and their bytes share a token;    *)
(* the character "U+00E9" is the two bytes "0xC3" "0xA9" in UTF-8.         *)
(***************************************************************************)
EXTENDS Integers, Sequences, FiniteSets, TLC

VARIABLES
    \* ---- DiffInfo side
    current_files,   \* the snapshot passed as update()'s first argument
    previous_files,  \* the snapshot passed as update()'s second argument
    objs,            \* the DiffInfo objects: [info, changed, new, deleted]
    hist,            \* per object, the operations applied to it so far
    last,            \* the last operation: its object, arguments and result
    \* ---- download_file side
    remote,          \* the server: HEAD status, body, content-length, .sha256 text
    fs,              \* the local files: path -> contents, or NoFile
    pc,              \* where the running download_file call stands
    frame,           \* the call's arguments, locals, requests made and result
    history          \* the frames of the calls that ended before this one

diffVars == <<current_files, previous_files, objs, hist, last>>

fetchVars == <<remote, fs, pc, frame, history>>

vars == <<diffVars, fetchVars>>

\* ------------------------------------------------------------------ bounds

\* Entries per snapshot.
MaxFiles == 2
\* Operations applied to the DiffInfo objects in one behaviour.
MaxOps == 2
\* Bytes in a remote body or a local file.
MaxBody == 2
\* Bytes per chunk of the streamed download (chunk_size, scaled down).
ChunkSize == 1
\* Calls of download_file in one behaviour.
MaxCalls == 2

\* ------------------------------------------------------------------ text

\* The paths the snapshots draw their keys from (str): one with a colon and a
\* non-ASCII character, one that ends in a space, one that holds a line feed.
Names ==
    { <<"a", ":", "U+00E9">>,
      <<"b", " ">>,
      <<"c", "\n", "d">> }

Chksums == {"k1", "k2"}

\* What bytes.strip() removes: ASCII whitespace.
Whitespace == {" ", "\t", "\n", "\r", "\f", "0x0B"}

\* UTF-8 of one character.
Utf8(c) == IF c = "U+00E9" THEN <<"0xC3", "0xA9">> ELSE <<c>>

RECURSIVE _b(_)
\* bytes(data, "utf8")
_b(data) == IF data = <<>> THEN <<>> ELSE Utf8(Head(data)) \o _b(Tail(data))

RECURSIVE split(_, _)
\* bytes.split(sep) for a one-byte separator: always at least one piece.
split(data, sep) ==
    IF \A i \in 1..Len(data) : data[i] # sep
    THEN <<data>>
    ELSE LET k == CHOOSE i \in 1..Len(data) :
                      data[i] = sep /\ \A j \in 1..(i - 1) : data[j] # sep
         IN  <<SubSeq(data, 1, k - 1)>> \o split(SubSeq(data, k + 1, Len(data)), sep)

RECURSIVE lstrip(_)
lstrip(line) ==
    IF line # <<>> /\ Head(line) \in Whitespace THEN lstrip(Tail(line)) ELSE line

RECURSIVE rstrip(_)
rstrip(line) ==
    IF line # <<>> /\ line[Len(line)] \in Whitespace
    THEN rstrip(SubSeq(line, 1, Len(line) - 1))
    ELSE line

\* bytes.strip()
strip(line) == rstrip(lstrip(line))

RECURSIVE join(_, _)
\* sep.join(pieces)
join(sep, pieces) ==
    IF pieces = <<>> THEN <<>>
    ELSE IF Len(pieces) = 1 THEN pieces[1]
    ELSE pieces[1] \o sep \o join(sep, Tail(pieces))

\* ------------------------------------------------------------- snapshots

\* A snapshot is a dict: a sequence of (name, info) items in iteration order,
\* no name twice.  info carries the checksum its get_info() reports.
Items == [name : Names, info : [chksum : Chksums]]

RECURSIVE SeqsUpTo(_, _)
SeqsUpTo(S, n) ==
    IF n = 0 THEN {<<>>}
    ELSE LET shorter == SeqsUpTo(S, n - 1)
         IN  shorter \cup {Append(s, x) : s \in shorter, x \in S}

Snapshots ==
    {s \in SeqsUpTo(Items, MaxFiles) :
        \A i, j \in 1..Len(s) : s[i].name = s[j].name => i = j}

\* name in files
Has(files, name) == \E i \in 1..Len(files) : files[i].name = name

\* files[name]
Get(files, name) == files[CHOOSE i \in 1..Len(files) : files[i].name = name].info

\* ---------------------------------------------------------------- DiffInfo

TagNew == <<"N", "E", "W", ":">>
TagChanged == <<"C", "H", "A", "N", "G", "E", "D", ":">>
TagDeleted == <<"D", "E", "L", "E", "T", "E", "D", ":">>

\* DiffInfo.__init__
DiffInfoInit == [info |-> <<>>, changed |-> 0, new |-> 0, deleted |-> 0]

add_changed(self, name) ==
    [self EXCEPT !.changed = @ + 1, !.info = Append(@, TagChanged \o name)]

add_new(self, name) ==
    [self EXCEPT !.new = @ + 1, !.info = Append(@, TagNew \o name)]

add_deleted(self, name) ==
    [self EXCEPT !.deleted = @ + 1, !.info = Append(@, TagDeleted \o name)]

\* ScanCurrent comparing the info objects' identity, not their checksums: a
\* path in both snapshots always counts as changed.
ScanCurrentNoChksum(acc, item, previous) ==
    IF ~Has(previous, item.name)
    THEN [self |-> add_new(acc.self, _b(item.name)),
          files |-> Append(acc.files, item.info)]
    ELSE [self |-> add_changed(acc.self, _b(item.name)),
          files |-> Append(acc.files, item.info)]

\* One pass of the first loop of update(): the item of current_files at i.
ScanCurrent(acc, item, previous) ==
    IF ~Has(previous, item.name)
    THEN [self |-> add_new(acc.self, _b(item.name)),
          files |-> Append(acc.files, item.info)]
    ELSE LET old == Get(previous, item.name).chksum
             new == item.info.chksum
         IN  IF old # new
             THEN [self |-> add_changed(acc.self, _b(item.name)),
                   files |-> Append(acc.files, item.info)]
             ELSE acc

\* ScanPrevious that also hands the deleted item's info to the caller.
ScanPreviousPersists(acc, item, current) ==
    IF ~Has(current, item.name)
    THEN [self |-> add_deleted(acc.self, _b(item.name)),
          files |-> Append(acc.files, item.info)]
    ELSE acc

\* One pass of the second loop of update(): the item of previous_files at i.
ScanPrevious(acc, item, current) ==
    IF ~Has(current, item.name)
    THEN [acc EXCEPT !.self = add_deleted(acc.self, _b(item.name))]
    ELSE acc

RECURSIVE LoopCurrent(_, _, _, _)
LoopCurrent(acc, current, previous, i) ==
    IF i > Len(current) THEN acc
    ELSE LoopCurrent(ScanCurrent(acc, current[i], previous), current, previous, i + 1)

RECURSIVE LoopPrevious(_, _, _, _)
LoopPrevious(acc, current, previous, i) ==
    IF i > Len(previous) THEN acc
    ELSE LoopPrevious(ScanPrevious(acc, previous[i], current), current, previous, i + 1)

\* update() with its two loops in the other order.
updateDeletedFirst(self, current, previous) ==
    LoopCurrent(
        LoopPrevious([self |-> self, files |-> <<>>], current, previous, 1),
        current, previous, 1)

\* DiffInfo.update: the object afterwards and the list it returns.
update(self, current, previous) ==
    LoopPrevious(
        LoopCurrent([self |-> self, files |-> <<>>], current, previous, 1),
        current, previous, 1)

RECURSIVE KeptLines(_)
\* The loop of load(): each line stripped, the empty ones skipped.
KeptLines(lines) ==
    IF lines = <<>> THEN <<>>
    ELSE LET line == strip(Head(lines))
         IN  IF line = <<>> THEN KeptLines(Tail(lines))
             ELSE <<line>> \o KeptLines(Tail(lines))

\* DiffInfo.load: the record list is replaced, nothing else is assigned.
load(self, data) == [self EXCEPT !.info = KeptLines(split(data, "\n"))]

\* DiffInfo.dump
dump(self) == join(<<"\n">>, self.info)

\* DiffInfo.__iter__: every record split at its colons.
iter(self) == [i \in 1..Len(self.info) |-> split(self.info[i], ":")]

\* DiffInfo.__len__
len(self) == Len(self.info)

\* -------------------------------------------------------- DiffInfo actions

Objs == {"D", "E"}

\* Bytes handed to load() that no dump() wrote, with blank and padded lines.
Literals ==
    { <<"\n", " ", "N", "E", "W", ":", "a", " ", "\n", "\n",
        "D", "E", "L", "E", "T", "E", "D", ":", "b", "\r", "\n">> }

NoOp == [op |-> "none"]

\* Two snapshots from the directory scanner, two fresh DiffInfo objects; the
\* download_file side is at rest.
InitDiff ==
    /\ current_files \in Snapshots
    /\ previous_files \in Snapshots
    /\ objs = [o \in Objs |-> DiffInfoInit]
    /\ hist = [o \in Objs |-> <<>>]
    /\ last = NoOp
    /\ remote = [status |-> 404, body |-> <<>>, content_length |-> FALSE,
                 sha |-> <<>>]
    /\ fs = <<>>       \* no local file
    /\ pc = "idle"
    /\ frame = <<>>    \* no call
    /\ history = <<>>

OpsDone == Len(hist["D"]) + Len(hist["E"])

\* o.update(current_files, previous_files)
Update(o) ==
    /\ OpsDone < MaxOps
    /\ LET r == update(objs[o], current_files, previous_files)
       IN  /\ objs' = [objs EXCEPT ![o] = r.self]
           /\ last' = [op |-> "update", obj |-> o, pre |-> objs[o], files |-> r.files]
    /\ hist' = [hist EXCEPT ![o] = Append(@, "update")]
    /\ UNCHANGED <<current_files, previous_files, fetchVars>>

\* o.load(src.dump())
LoadDump(o, src) ==
    /\ OpsDone < MaxOps
    /\ objs' = [objs EXCEPT ![o] = load(@, dump(objs[src]))]
    /\ last' = [op |-> "load", obj |-> o, pre |-> objs[o], data |-> dump(objs[src]),
                src |-> src, srcInfo |-> objs[src].info, srcHist |-> hist[src]]
    /\ hist' = [hist EXCEPT ![o] = Append(@, "load")]
    /\ UNCHANGED <<current_files, previous_files, fetchVars>>

\* o.load(data) for bytes from elsewhere
LoadLiteral(o, data) ==
    /\ OpsDone < MaxOps
    /\ objs' = [objs EXCEPT ![o] = load(@, data)]
    /\ last' = [op |-> "load", obj |-> o, pre |-> objs[o], data |-> data,
                src |-> "none", srcInfo |-> <<>>, srcHist |-> <<>>]
    /\ hist' = [hist EXCEPT ![o] = Append(@, "load")]
    /\ UNCHANGED <<current_files, previous_files, fetchVars>>

NextDiff ==
    \/ \E o \in Objs : Update(o)
    \/ \E o \in Objs, src \in Objs : LoadDump(o, src)
    \/ \E o \in Objs, data \in Literals : LoadLiteral(o, data)


\* ------------------------------------------------------------ download_file

Bytes == {"x"}

Bodies == SeqsUpTo(Bytes, MaxBody)

\* A path's state: no file there, or a file and its contents.
NoFile == [present |-> FALSE, data |-> <<>>]
File(content) == [present |-> TRUE, data |-> content]

None == "None"
\* The local check before it is assigned.
Unbound == <<"unbound">>

\* The url, as the pieces url.split('/') gives.
Url == <<"https:", "", "ftp.mozilla.org", "pub", "firefox.dmg">>

\* url.split('/')[-1]
Basename(url) == url[Len(url)]

ExplicitTarget == "t.dmg"

Paths == {Basename(Url), ExplicitTarget}

\* Signer.checksum: the hex SHA-256 of a file's contents, as text.  Distinct
\* contents have distinct digests.
Sha256Hex(content) == <<"sha256">> \o content

\* The text GET url + '.sha256' answers with when there is no such resource.
NotFoundText == <<"<html>", "404", "</html>">>

ShaTexts == {Sha256Hex(b) : b \in Bodies} \cup {NotFoundText}

RECURSIVE iter_content(_, _)
\* req.iter_content(chunk_size): the body in pieces of at most chunk_size.
iter_content(body, chunk_size) ==
    IF body = <<>> THEN <<>>
    ELSE IF Len(body) <= chunk_size THEN <<body>>
    ELSE <<SubSeq(body, 1, chunk_size)>>
             \o iter_content(SubSeq(body, chunk_size + 1, Len(body)), chunk_size)

\* signer.checksum(target)
checksum(target) == Sha256Hex(fs[target].data)

\* os.path.exists(target)
exists(target) == fs[target].present

Return(value) == [kind |-> "return", value |-> value]
Raise(exc, arg) == [kind |-> exc, value |-> arg]
Running == [kind |-> "running", value |-> None]

\* A call's frame: url, the target as passed (arg) and as resolved (target),
\* check_file, the locals check and the chunk iterator, and for the properties
\* the bytes read off the stream, the requests made, the files as the call
\* found them and how the call ended.
IdleFrame ==
    [url |-> Url, arg |-> None, target |-> None, check_file |-> FALSE,
     check |-> Unbound,
     chunks |-> <<>>, received |-> <<>>, streamed |-> FALSE,
     heads |-> 0, sha_gets |-> 0, gets |-> 0,
     fs0 |-> [p \in Paths |-> NoFile], result |-> Running]

\* Any server, any local files, no call yet; the DiffInfo side is at rest.
InitFetch ==
    /\ remote \in [status : {200, 404, 500}, body : Bodies,
                   content_length : BOOLEAN, sha : ShaTexts]
    /\ fs \in [Paths -> {File(b) : b \in Bodies} \cup {NoFile}]
    /\ pc = "idle"
    /\ frame = IdleFrame
    /\ history = <<>>
    /\ current_files = <<>>
    /\ previous_files = <<>>
    /\ objs = [o \in Objs |-> DiffInfoInit]
    /\ hist = [o \in Objs |-> <<>>]
    /\ last = NoOp

\* download_file(url, target, check_file) is called.
Call(target, check_file) ==
    /\ pc \in {"idle", "done"}
    /\ Len(history) + (IF pc = "done" THEN 1 ELSE 0) < MaxCalls
    /\ history' = IF pc = "done" THEN Append(history, frame) ELSE history
    /\ frame' = [IdleFrame EXCEPT !.arg = target, !.target = target,
                                  !.check_file = check_file, !.fs0 = fs]
    /\ pc' = "check_exists"
    /\ UNCHANGED <<remote, fs, diffVars>>

\* CheckExists that takes any answer to the HEAD as presence.
CheckExistsAnyStatus ==
    /\ pc = "check_exists"
    /\ frame' = [frame EXCEPT !.heads = @ + 1,
                              !.target = IF @ = None THEN Basename(frame.url) ELSE @]
    /\ pc' = "get_checksum"
    /\ UNCHANGED <<remote, fs, history, diffVars>>

\* check_exists(url), and the raise when the HEAD status is not 200.
CheckExists ==
    /\ pc = "check_exists"
    /\ LET present == remote.status = 200
       IN  IF ~present
           THEN /\ frame' = [frame EXCEPT !.heads = @ + 1,
                                          !.result = Raise("ArchiveNotFound", frame.url)]
                /\ pc' = "done"
           ELSE /\ frame' = [frame EXCEPT !.heads = @ + 1,
                                          !.target = IF @ = None
                                                     THEN Basename(frame.url) ELSE @]
                /\ pc' = "get_checksum"
    /\ UNCHANGED <<remote, fs, history, diffVars>>

\* check = requests.get(url + '.sha256').text, when check_file.
GetChecksum ==
    /\ pc = "get_checksum"
    /\ frame' = IF frame.check_file
                THEN [frame EXCEPT !.sha_gets = @ + 1, !.check = remote.sha]
                ELSE frame
    /\ pc' = "check_target"
    /\ UNCHANGED <<remote, fs, history, diffVars>>

\* CheckTarget that returns whatever file is at target, compared or not.
CheckTargetNoCompare ==
    /\ pc = "check_target"
    /\ IF exists(frame.target)
       THEN /\ frame' = [frame EXCEPT !.result = Return(frame.target)]
            /\ pc' = "done"
       ELSE /\ frame' = frame
            /\ pc' = "request"
    /\ UNCHANGED <<remote, fs, history, diffVars>>

\* CheckTarget that never reuses the file at target when check_file is set.
CheckTargetAlwaysDownload ==
    /\ pc = "check_target"
    /\ IF exists(frame.target) /\ ~frame.check_file
       THEN /\ frame' = [frame EXCEPT !.result = Return(frame.target)]
            /\ pc' = "done"
       ELSE /\ frame' = frame
            /\ pc' = "request"
    /\ UNCHANGED <<remote, fs, history, diffVars>>

\* The file already at target: returned as it is without check_file, or when
\* its checksum is the expected one.
CheckTarget ==
    /\ pc = "check_target"
    /\ IF exists(frame.target)
          /\ (~frame.check_file \/ checksum(frame.target) = frame.check)
       THEN /\ frame' = [frame EXCEPT !.result = Return(frame.target)]
            /\ pc' = "done"
       ELSE /\ frame' = frame
            /\ pc' = "request"
    /\ UNCHANGED <<remote, fs, history, diffVars>>

\* req = requests.get(url, stream=True); total_length = int(content-length):
\* int(None) raises TypeError when the header is missing.
Request ==
    /\ pc = "request"
    /\ IF ~remote.content_length
       THEN /\ frame' = [frame EXCEPT !.gets = @ + 1,
                                      !.result = Raise("TypeError", None)]
            /\ pc' = "done"
       ELSE /\ frame' = [frame EXCEPT !.gets = @ + 1]
            /\ pc' = "open"
    /\ UNCHANGED <<remote, fs, history, diffVars>>

\* open(target, 'wb') truncates or creates the file; the chunk iterator is made.
Open ==
    /\ pc = "open"
    /\ fs' = [fs EXCEPT ![frame.target] = File(<<>>)]
    /\ frame' = [frame EXCEPT !.chunks = iter_content(remote.body, ChunkSize)]
    /\ pc' = "stream"
    /\ UNCHANGED <<remote, history, diffVars>>

\* One pass of the download loop: a non-empty chunk is written and flushed.
WriteChunk ==
    /\ pc = "stream"
    /\ frame.chunks # <<>>
    /\ LET chunk == Head(frame.chunks)
       IN  /\ fs' = [fs EXCEPT ![frame.target] =
                          IF chunk # <<>> THEN File(@.data \o chunk) ELSE @]
           /\ frame' = [frame EXCEPT !.chunks = Tail(@), !.received = @ \o chunk]
    /\ pc' = "stream"
    /\ UNCHANGED <<remote, history, diffVars>>

\* Verify that removes the file it found corrupt before raising.
VerifyDeleting ==
    /\ pc = "stream"
    /\ frame.chunks = <<>>
    /\ LET bad == frame.check_file /\ frame.check # checksum(frame.target)
       IN  /\ frame' = [frame EXCEPT
                          !.streamed = TRUE,
                          !.result = IF bad THEN Raise("ArchiveError", frame.target)
                                     ELSE Return(frame.target)]
           /\ fs' = IF bad THEN [fs EXCEPT ![frame.target] = NoFile] ELSE fs
    /\ pc' = "done"
    /\ UNCHANGED <<remote, history, diffVars>>

\* The iterator is exhausted and the file closed; then the check of the
\* checksum, the raise of ArchiveError(target) or the return of target.
Verify ==
    /\ pc = "stream"
    /\ frame.chunks = <<>>
    /\ frame' = [frame EXCEPT
                   !.streamed = TRUE,
                   !.result = IF frame.check_file
                                 /\ frame.check # checksum(frame.target)
                              THEN Raise("ArchiveError", frame.target)
                              ELSE Return(frame.target)]
    /\ pc' = "done"
    /\ UNCHANGED <<remote, fs, history, diffVars>>

NextFetch ==
    \/ \E target \in {None, ExplicitTarget}, check_file \in BOOLEAN :
           Call(target, check_file)
    \/ CheckExists
    \/ GetChecksum
    \/ CheckTarget
    \/ Request
    \/ Open
    \/ WriteChunk
    \/ Verify

SpecFetch == InitFetch /\ [][NextFetch]_vars
SpecDiff == InitDiff /\ [][NextDiff]_vars

\* ------------------------------------------------------ DiffInfo properties

KindNew == <<"N", "E", "W">>
KindChanged == <<"C", "H", "A", "N", "G", "E", "D">>
KindDeleted == <<"D", "E", "L", "E", "T", "E", "D">>

\* A record's tag: what precedes its first colon.
Kind(rec) == split(rec, ":")[1]

CountKind(self, kind) ==
    Cardinality({i \in 1..Len(self.info) : Kind(self.info[i]) = kind})

Occurrences(recs, rec) == Cardinality({i \in 1..Len(recs) : recs[i] = rec})

\* The position of a name in a snapshot (0: absent).
Pos(files, name) ==
    IF Has(files, name) THEN CHOOSE i \in 1..Len(files) : files[i].name = name ELSE 0

IsNew(name) == Has(current_files, name) /\ ~Has(previous_files, name)
IsChanged(name) ==
    /\ Has(current_files, name) /\ Has(previous_files, name)
    /\ Get(current_files, name).chksum # Get(previous_files, name).chksum
IsDeleted(name) == Has(previous_files, name) /\ ~Has(current_files, name)

\* The records the last update() appended to its object.
Appended ==
    SubSeq(objs[last.obj].info, Len(last.pre.info) + 1, Len(objs[last.obj].info))

\* C2: in every reachable state the counters new, changed and deleted of each
\* DiffInfo equal the number of NEW, CHANGED and DELETED records it holds.
C2_CountersMatchRecords ==
    \A o \in Objs :
        /\ objs[o].new = CountKind(objs[o], KindNew)
        /\ objs[o].changed = CountKind(objs[o], KindChanged)
        /\ objs[o].deleted = CountKind(objs[o], KindDeleted)

\* C3: update(current, previous) on a fresh DiffInfo leaves exactly one record
\* per differing path: NEW for a path only in current, CHANGED for a path in
\* both with different checksums, DELETED for a path only in previous, and
\* nothing else.
C3_UpdateFromFresh ==
    (last.op = "update" /\ last.pre = DiffInfoInit) =>
        LET recs == objs[last.obj].info IN
        /\ \A n \in Names :
            /\ Occurrences(recs, TagNew \o _b(n)) = IF IsNew(n) THEN 1 ELSE 0
            /\ Occurrences(recs, TagChanged \o _b(n)) = IF IsChanged(n) THEN 1 ELSE 0
            /\ Occurrences(recs, TagDeleted \o _b(n)) = IF IsDeleted(n) THEN 1 ELSE 0
        /\ Len(recs) = Cardinality({n \in Names : IsNew(n) \/ IsChanged(n) \/ IsDeleted(n)})

\* A fresh DiffInfo has been updated with snapshots holding a new, a changed,
\* an unchanged or a deleted path between them, three records resulting.
C3_Witness ==
    /\ last.op = "update" /\ last.pre = DiffInfoInit
    /\ \E n \in Names : IsNew(n)
    /\ \E n \in Names : IsChanged(n)
    /\ \E n \in Names : IsDeleted(n)
    /\ len(objs[last.obj]) = 3

\* The name a record written by update() stands for.
RecName(rec) ==
    CHOOSE n \in Names :
        rec \in {TagNew \o _b(n), TagChanged \o _b(n), TagDeleted \o _b(n)}

\* C4: among the records one update() appends, every NEW or CHANGED record
\* precedes every DELETED one, the NEW/CHANGED records follow the iteration
\* order of current and the DELETED records that of previous.
C4_AppendOrder ==
    last.op = "update" =>
        \A i, j \in 1..Len(Appended) :
            i < j =>
                LET ki == Kind(Appended[i])
                    kj == Kind(Appended[j])
                    ni == RecName(Appended[i])
                    nj == RecName(Appended[j])
                IN  /\ ki = KindDeleted => kj = KindDeleted
                    /\ (ki # KindDeleted /\ kj # KindDeleted) =>
                           Pos(current_files, ni) < Pos(current_files, nj)
                    /\ (ki = KindDeleted /\ kj = KindDeleted) =>
                           Pos(previous_files, ni) < Pos(previous_files, nj)

\* An update() on a DiffInfo that already held records appended two
\* NEW/CHANGED records and then a DELETED one.
C4_Witness ==
    /\ last.op = "update" /\ last.pre.info # <<>>
    /\ Len(Appended) = 3
    /\ Kind(Appended[1]) # KindDeleted
    /\ Kind(Appended[2]) # KindDeleted
    /\ Kind(Appended[3]) = KindDeleted

\* C5: E.load(D.dump()), for D made by update() alone, leaves E's records
\* equal to D's, whatever E held before: the same records in the same order,
\* and so the same pieces when iterated.
C5_RoundTrip ==
    (/\ last.op = "load" /\ last.src \in Objs
     /\ last.srcHist # <<>>
     /\ \A i \in 1..Len(last.srcHist) : last.srcHist[i] = "update") =>
        /\ objs[last.obj].info = last.srcInfo
        /\ iter(objs[last.obj]) = iter([info |-> last.srcInfo])

RECURSIVE Persisted(_, _)
\* The info of the items of files, from i on, whose name got a NEW or CHANGED
\* record in the last update().
Persisted(files, i) ==
    IF i > Len(files) THEN <<>>
    ELSE LET rest == Persisted(files, i + 1)
             n == files[i].name
         IN  IF \E k \in 1..Len(Appended) :
                    Appended[k] \in {TagNew \o _b(n), TagChanged \o _b(n)}
             THEN <<files[i].info>> \o rest
             ELSE rest

\* C10: update() returns the info of exactly the items of current whose path
\* got a NEW or CHANGED record in that call, in current's order: nothing for
\* an unchanged path, nothing from previous.
C10_ReturnedFiles ==
    last.op = "update" =>
        /\ last.files = Persisted(current_files, 1)
        /\ Len(last.files) =
               Cardinality({n \in Names : IsNew(n) \/ IsChanged(n)})

\* An update() returned two entries while a path was deleted.
C10_Witness ==
    /\ last.op = "update"
    /\ Len(last.files) = 2
    /\ \E n \in Names : IsDeleted(n)
    /\ \E n \in Names : IsChanged(n)

\* --------------------------------------------------- download_file properties

\* The path a target argument stands for.
Resolved(arg) == IF arg = None THEN Basename(Url) ELSE arg

\* The call that ended before the one frame describes.
Previous == history[Len(history)]

\* Two successive ended calls with check_file and the same target, no file at
\* the target before the first.
ColdPair ==
    /\ pc = "done" /\ history # <<>>
    /\ Previous.check_file /\ frame.check_file
    /\ Previous.arg = frame.arg
    /\ ~Previous.fs0[Resolved(frame.arg)].present

\* C1: when download_file(url, target, check_file=True) returns, the file at
\* the returned path exists and its checksum is the text of url + '.sha256',
\* which the call fetched.
C1_ReturnedFileVerified ==
    (pc = "done" /\ frame.check_file /\ frame.result.kind = "return") =>
        LET path == frame.result.value IN
        /\ path = Resolved(frame.arg)
        /\ fs[path].present
        /\ Sha256Hex(fs[path].data) = remote.sha
        /\ frame.sha_gets = 1

\* A call with check_file returned after replacing a file with other contents
\* by a fresh download of two chunks.
C1_Witness ==
    /\ pc = "done" /\ frame.check_file /\ frame.result.kind = "return"
    /\ frame.gets = 1 /\ Len(frame.received) = 2
    /\ frame.fs0[frame.target].present

\* C6: when the HEAD status is not 200 the call makes no GET, neither of the
\* artifact nor of its .sha256, leaves every local file as it was, and ends
\* raising ArchiveNotFound(url).
C6_NotFoundBeforeDownload ==
    (pc # "idle" /\ remote.status # 200) =>
        /\ frame.gets = 0 /\ frame.sha_gets = 0
        /\ fs = frame.fs0
        /\ pc \in {"check_exists", "done"}
        /\ pc = "done" =>
               /\ frame.result.kind = "ArchiveNotFound"
               /\ frame.result.value = Url

\* A call with check_file ended on a HEAD status other than 200 while a file
\* was at its target.
C6_Witness ==
    /\ pc = "done" /\ remote.status # 200 /\ frame.check_file
    /\ frame.heads = 1
    /\ fs[Resolved(frame.arg)].present

\* C7: when the bytes downloaded do not have the expected checksum, the call
\* with check_file raises ArchiveError(target), and the file at target holds
\* exactly the bytes downloaded, after one GET of the artifact.
C7_MismatchKeepsFile ==
    (/\ pc = "done" /\ frame.check_file /\ frame.streamed
     /\ Sha256Hex(frame.received) # frame.check) =>
        /\ frame.result.kind = "ArchiveError"
        /\ frame.result.value = frame.target
        /\ frame.target = Resolved(frame.arg)
        /\ frame.received = remote.body
        /\ fs[frame.target] = File(frame.received)
        /\ frame.gets = 1 /\ frame.heads = 1 /\ frame.sha_gets = 1

\* A download of two chunks over an existing file ended with a checksum other
\* than the expected one.
C7_Witness ==
    /\ pc = "done" /\ frame.check_file /\ frame.streamed
    /\ Sha256Hex(frame.received) # frame.check
    /\ Len(frame.received) = 2
    /\ frame.fs0[frame.target].present

C9_NoContentLengthProceeds ==
    (pc = "done" /\ frame.gets = 1 /\ ~remote.content_length) =>
        /\ frame.streamed
        /\ fs[frame.target] = File(remote.body)
        /\ \/ frame.result.kind = "return"
           \/ frame.check_file /\ frame.result.kind = "ArchiveError"

====
